---------------------------- MODULE Spec2Model ----------------------------
(***************************************************************************)
(* Model of the media-preparation pipeline of scripts/process_media.py     *)
(* (the variant with GIFs, which appends to the tag table) and of          *)
(* scripts/tag_media.py (the variant without GIFs, which rewrites the tag  *)
(* table at the end of a run).                                             *)
(*                                                                         *)
(* Names.  A file name or identifier is a sequence of tokens: the tokens   *)
(* "_thumb", "_start", "_middle", "_end", "gif_" and "_segment_k" are the  *)
(* substrings the code appends, strips or tests for, and the other tokens  *)
(* ("a", "c") stand for text holding none of them.  str.replace(t, "") is  *)
(* the removal of every token t, str.startswith(t) a test of the first     *)
(* token.                                                                  *)
(*                                                                         *)
(* Time.  Durations and offsets are counted in ticks of 1/20 s, so that    *)
(* duration * 0.1 and duration * 0.5 are exact for every duration that is  *)
(* a multiple of half a second.                                            *)
(***************************************************************************)
EXTENDS Integers, Sequences, FiniteSets, TLC

\* ------------------------------------------------------------------ bounds

\* Runs of process_media() in one behaviour.
MaxRuns == 2

\* External failures (tool, probe, scan, copy, delete, model load) injected
\* in one behaviour.
MaxFaults == 1

\* Video files under VIDEO_DIR at once.
MaxVideos == 2

\* Labels the classifier can rank (the candidate list seen by the model).
MaxLabels == 30

\* Longest duration, in seconds, drawn for a generator call on its own.
MaxDurSec == 70

\* Rows of the tag table drawn for a prune on its own.
MaxEntries == 2

\* Rows of the label table drawn for the candidate-label loader.
MaxNames == 54

\* Processes present at startup beside the run itself.
MaxProcs == 2

\* --------------------------------------------------------- program constants

\* "if duration < 5": the floor below which a video is skipped.
MinDurationSec == 5

\* "if duration > 60": the limit above which three segments are cut.
LongDurationSec == 60

\* max(21, ...) in the DictWriter field names: tag1..tag20 at least.
MinTagCols == 20

\* prompt_user: "1 <= segment_length <= 20".
MaxSegmentLength == 20

\* len(DEFAULT_CANDIDATE_TAGS)
DefaultLabels == 20

\* filtered_tags[:50]
MaxCandidates == 50

\* df['count'] > 100
MinCount == 100

Sec(n) == n * 20

RECURSIVE SmallSubsets(_, _)
\* The subsets of S with at most n elements.
SmallSubsets(S, n) ==
    IF n <= 0 THEN {{}}
    ELSE LET less == SmallSubsets(S, n - 1)
         IN  less \cup {T \cup {x} : T \in less, x \in S}

Min(a, b) == IF a <= b THEN a ELSE b

Max(a, b) == IF a >= b THEN a ELSE b

\* ------------------------------------------------------------------ names

Suffixes == <<"_thumb", "_start", "_middle", "_end">>

\* s.replace(t, "")
Replace(s, t) == SelectSeq(s, LAMBDA x : x # t)

\* file.stem.replace("_thumb", "").replace("_start", "").replace("_middle", "").replace("_end", "")
StripSuffixes(stem) ==
    Replace(Replace(Replace(Replace(stem, Suffixes[1]), Suffixes[2]), Suffixes[3]), Suffixes[4])

\* id.startswith("gif_")
StartsWithGif(id) == Len(id) > 0 /\ Head(id) = "gif_"

\* f"gif_{video_id}"
GifMediaId(video_id) == <<"gif_">> \o video_id

File(dir, stem, ext) == [dir |-> dir, stem |-> stem, ext |-> ext]

\* get_path(THUMBS_DIR, "preview", f"{video_id}_thumb.jpg")
JpegPath(video_id) == File("preview", video_id \o <<"_thumb">>, "jpg")

\* get_path(THUMBS_DIR, "preview", f"{video_id}.webm")
WebmPath(video_id) == File("preview", video_id, "webm")

\* get_path(GIF_DIR, f"{video_id}.gif")
GifPath(video_id) == File("gif", video_id, "gif")

\* gif_dir / f"{video_id}_segment_{i}.gif", i in range(5)
GifSegmentTokens == <<"_segment_0", "_segment_1", "_segment_2", "_segment_3", "_segment_4">>

GifSegmentPath(video_id, i) == File("gif", video_id \o <<GifSegmentTokens[i]>>, "gif")

\* ------------------------------------------------------------- the videos

\* The video files that may lie under VIDEO_DIR, in the order of their
\* paths: "a.mp4" < "a_end.mp4" < "c.mp4" < "sub/a.webm".  Path(v).stem is
\* the identifier; "a.mp4" and "sub/a.webm" share one.
VideoPool ==
    << [path |-> "a.mp4",      id |-> <<"a">>,         dur |-> Sec(30)],
       [path |-> "a_end.mp4",  id |-> <<"a", "_end">>, dur |-> Sec(90)],
       [path |-> "c.mp4",      id |-> <<"c">>,         dur |-> Sec(3)],
       [path |-> "sub/a.webm", id |-> <<"a">>,         dur |-> Sec(90)],
       [path |-> "z/gif_a.mp4", id |-> <<"gif_", "a">>, dur |-> Sec(30)] >>

\* The videos whose name begins with "gif_": they are part of the loop on
\* its own only.
GifNamedVideos == {v \in 1 .. Len(VideoPool) : VideoPool[v].id[1] = "gif_"}

Videos == (1 .. Len(VideoPool)) \ GifNamedVideos

\* Path(v).stem
Stem(v) == VideoPool[v].id

RECURSIVE SortedSeq(_)
\* sorted(video_files): the pool is listed in path order.
SortedSeq(S) ==
    IF S = {} THEN <<>>
    ELSE LET m == CHOOSE x \in S : \A y \in S : x <= y
         IN  <<m>> \o SortedSeq(S \ {m})

\* {Path(v).stem for v in video_files}
VideoIds(video_files) == {Stem(video_files[k]) : k \in 1 .. Len(video_files)}

\* -------------------------------------------------------- the generators

\* The capture time at a fixed 10 s, as the first segment of a long clip.
JpegTimestamp_fixed(duration) == Sec(10)

\* generate_jpeg: timestamp = min(max(duration * 0.1, 0), duration)
JpegTimestamp(duration) == Min(Max(duration \div 10, 0), duration)

\* generate_jpeg: one ffmpeg call writing f"{video_id}_thumb.jpg"; the URL
\* on success, "" when the call fails.
generate_jpeg(files, video_id, ok) ==
    IF ok THEN [files |-> files \cup {JpegPath(video_id)}, ok |-> TRUE]
          ELSE [files |-> files, ok |-> FALSE]

\* The three segments listed from the end of the video to its start.
Clips_end_first(video_id, duration) ==
    IF duration > Sec(LongDurationSec)
    THEN << [start |-> duration - Sec(20), stem |-> video_id \o <<"_end">>],
            [start |-> duration \div 2,    stem |-> video_id \o <<"_middle">>],
            [start |-> Sec(10),            stem |-> video_id \o <<"_start">>] >>
    ELSE << [start |-> duration \div 2,    stem |-> video_id] >>

\* generate_webm, "clips": (start_time, filename) of the segments to cut.
Clips(video_id, duration) ==
    IF duration > Sec(LongDurationSec)
    THEN << [start |-> Sec(10),            stem |-> video_id \o <<"_start">>],
            [start |-> duration \div 2,    stem |-> video_id \o <<"_middle">>],
            [start |-> duration - Sec(20), stem |-> video_id \o <<"_end">>] >>
    ELSE << [start |-> duration \div 2,    stem |-> video_id] >>

\* The clamp leaving room for the three segments after the start.
ClampStart_three_segments(start_time, duration, segment_length) ==
    Min(Max(start_time, 0), duration - 3 * Sec(segment_length))

\* start_time = min(max(start_time, 0), duration - segment_length)
ClampStart(start_time, duration, segment_length) ==
    Min(Max(start_time, 0), duration - Sec(segment_length))

\* The "-ss" argument of each segment's ffmpeg call, in call order.
SegmentStarts(duration, segment_length) ==
    LET clips == Clips(<<>>, duration)
    IN  [k \in 1 .. Len(clips) |-> ClampStart(clips[k].start, duration, segment_length)]

\* The segment loop going on after a failed call.
SegmentCalls_all(n, failAt) == n

\* generate_webm, "for start_time, filename in clips": the ffmpeg calls the
\* loop makes.  The failAt-th call fails and "return []" ends the loop.
SegmentCalls(n, failAt) == IF failAt \in 1 .. n THEN failAt ELSE n

\* The failed merge unlinking the segments, as generate_gif does.
AfterMergeFailure_unlink(cut, segs) == cut \ segs

\* generate_webm, "except subprocess.CalledProcessError" of the merge:
\* "return []", nothing is unlinked.
AfterMergeFailure(cut, segs) == cut

\* The merged clip written without the unlink loop after it.
AfterMerge_no_unlink(cut, segs, final, kept) == cut \cup {final}

\* generate_webm, after the merge call has succeeded: the merged clip is
\* there and "for temp_file in temp_files: temp_file.unlink()" removes the
\* segments, except those of "kept", whose unlink raises OSError.
AfterMerge(cut, segs, final, kept) == ((cut \cup {final}) \ segs) \cup (kept \cap segs)

\* generate_webm.  failAt = 0: every ffmpeg call succeeds; failAt = k <= the
\* number of clips: the k-th segment call fails ("return []", the segments
\* cut before it stay); failAt = number of clips + 1: the merge fails
\* ("return []", the three segments stay).  calls: the segment calls made;
\* concat: the lines of the concat file of the merge call, <<>> when no
\* merge is called.
generate_webm(files, video_id, duration, failAt, kept) ==
    LET clips    == Clips(video_id, duration)
        n        == Len(clips)
        seg(k)   == File("preview", clips[k].stem, "webm")
        segs     == {seg(k) : k \in 1 .. n}
        calls    == SegmentCalls(n, failAt)
        done     == IF failAt \in 1 .. n THEN calls - 1 ELSE calls
        cut      == files \cup {seg(k) : k \in 1 .. done}
        list     == [k \in 1 .. n |-> seg(k)]
    IN  IF failAt \in 1 .. n
        THEN [files |-> cut, ok |-> FALSE, calls |-> calls, concat |-> <<>>]
        ELSE IF duration > Sec(LongDurationSec)
        THEN IF failAt = n + 1
             THEN [files |-> AfterMergeFailure(cut, segs), ok |-> FALSE,
                   calls |-> calls, concat |-> list]
             ELSE [files |-> AfterMerge(cut, segs, WebmPath(video_id), kept), ok |-> TRUE,
                   calls |-> calls, concat |-> list]
        ELSE [files |-> cut, ok |-> TRUE, calls |-> calls, concat |-> <<>>]

\* The duration test of generate_gif left out.
GifTooShort_never(duration) == FALSE

\* generate_gif: "if duration < 5: ... return ''", before any ffmpeg call.
GifTooShort(duration) == duration < Sec(MinDurationSec)

\* The failed merge leaving the segments, as generate_webm does.
AfterGifMerge_keep(fs, segs) == fs

\* generate_gif, "finally: for temp_file in temp_files: temp_file.unlink()":
\* runs when the merge call has succeeded and when it has failed.
AfterGifMerge(fs, segs) == fs \ segs

\* generate_gif.  failAt = 0: success; failAt = k in 1..5: the k-th segment
\* call fails ("return" inside the loop, outside the try whose finally
\* unlinks the segments); failAt = 6: the merge fails (finally unlinks).
generate_gif(files, video_id, duration, failAt) ==
    IF GifTooShort(duration) THEN [files |-> files, ok |-> FALSE, calls |-> 0]
    ELSE LET segs(n) == {GifSegmentPath(video_id, i) : i \in 1 .. n}
         IN  IF failAt \in 1 .. 5
             THEN [files |-> files \cup segs(failAt - 1), ok |-> FALSE, calls |-> failAt]
             ELSE IF failAt = 6
             THEN [files |-> AfterGifMerge(files \cup segs(5), segs(5)),
                   ok |-> FALSE, calls |-> 6]
             ELSE [files |-> AfterGifMerge(files \cup segs(5) \cup {GifPath(video_id)}, segs(5)),
                   ok |-> TRUE, calls |-> 6]

\* ------------------------------------------------------------ the tag table

\* tags.csv: whether the file exists, the number of tag columns of its
\* header row, and its data rows (cells: the tag cells written in the row,
\* empty ones included).
NoTable == [exists |-> FALSE, header |-> 0, rows |-> <<>>]

\* A row of csv.DictReader: the dict has one key per header column; cells
\* past the header go under the rest key None.
ReadRow(row, header) ==
    [media_id   |-> row.media_id,
     media_type |-> row.media_type,
     tags       |-> SubSeq(row.tags, 1, Min(Len(row.tags), header)),
     keys       |-> header,
     rest       |-> row.cells > header]

\* load_existing_tags
load_existing_tags(tbl) ==
    IF tbl.exists THEN [k \in 1 .. Len(tbl.rows) |-> ReadRow(tbl.rows[k], tbl.header)]
    ELSE <<>>

\* {"media_id": ..., "media_type": ..., **{f"tag{i}": tag for i, tag in enumerate(tags, 1)}}
NewEntry(media_id, media_type, tags) ==
    [media_id |-> media_id, media_type |-> media_type, tags |-> tags,
     keys |-> Len(tags), rest |-> FALSE]

\* DictWriter.writerow: the row is padded to the writer's field names.
WriteRow(entry, cols) ==
    [media_id |-> entry.media_id, media_type |-> entry.media_type,
     tags |-> entry.tags, cells |-> cols]

\* append_tags: field names tag1..tag(max(21, len(entry) - 1) - 1); the
\* header is written only when the file does not exist yet.
append_tags(tbl, entry) ==
    LET cols == Max(MinTagCols + 1, (entry.keys + 2) - 1) - 1
    IN  [exists |-> TRUE,
         header |-> IF tbl.exists THEN tbl.header ELSE cols,
         rows   |-> Append(tbl.rows, WriteRow(entry, cols))]

\* DictWriter raises ValueError for a dict with a key outside its field names.
Writable(entry, cols) == entry.keys <= cols /\ ~entry.rest

\* tag_media.py, "Write tags.csv": open(..., "w"), the header, then the rows
\* up to the first one DictWriter refuses.
write_tags(tags_data, num_tags) ==
    LET cols == Max(MinTagCols + 1, num_tags + 1) - 1
        bad  == {k \in 1 .. Len(tags_data) : ~Writable(tags_data[k], cols)}
        n    == IF bad = {} THEN Len(tags_data)
                ELSE (CHOOSE k \in bad : \A j \in bad : k <= j) - 1
    IN  [exists |-> TRUE, header |-> cols,
         rows |-> [k \in 1 .. n |-> WriteRow(tags_data[k], cols)]]

\* process_media.py clean_orphaned_tags: an entry stays when its media_id is
\* a video identifier or "gif_" + a video identifier.
clean_orphaned_tags_pm(tags_data, video_files) ==
    LET video_ids == VideoIds(video_files)
        gif_ids   == {GifMediaId(id) : id \in video_ids}
    IN  SelectSeq(tags_data, LAMBDA e : e.media_id \in video_ids \/ e.media_id \in gif_ids)

\* tag_media.py clean_orphaned_tags: an entry stays when its media_id is a
\* video identifier.
clean_orphaned_tags_tm(tags_data, video_files) ==
    LET video_ids == VideoIds(video_files)
    IN  SelectSeq(tags_data, LAMBDA e : e.media_id \in video_ids)

\* sorted(results, key=score, reverse=True)[:num_tags], as labels: label k
\* is the candidate with the k-th highest score.
TopLabels(num_tags) == [k \in 1 .. Min(num_tags, MaxLabels) |-> k]

\* tag_image: Image.open raises when the still frame is missing, the scorer
\* may raise ("error") or give nothing ("empty"); both end in [].
tag_image(files, image_path, outcome, num_tags) ==
    IF image_path \notin files \/ outcome # "tags" THEN <<>> ELSE TopLabels(num_tags)

\* -------------------------------------------------------- orphan cleanup

\* The files clean_thumbnails / the first loop of clean_thumbnails_and_gifs
\* unlink: preview_dir.glob("*") whose stripped stem is no video identifier.
OrphanPreviews(files, video_ids) ==
    {f \in files : f.dir = "preview" /\ StripSuffixes(f.stem) \notin video_ids}

\* The files the second loop of clean_thumbnails_and_gifs unlinks:
\* gif_dir.glob("*.gif") whose stem is no video identifier.
OrphanGifs(files, video_ids) ==
    {f \in files : f.dir = "gif" /\ f.ext = "gif" /\ f.stem \notin video_ids}

\* ------------------------------------------------------------- the state

VARIABLES
    variant,           \* "pm": scripts/process_media.py, "tm": scripts/tag_media.py
    disk,              \* the video files under VIDEO_DIR (indices of VideoPool)
    files,             \* the files under THUMBS_DIR/preview and GIF_DIR
    dirs,              \* which of the directories "preview" and "gif" exist
    table,             \* tags.csv
    pc,                \* where process_media() stands
    run,               \* runs finished so far
    faults,            \* external failures injected so far
    cfg,               \* what prompt_user() returned (kept from the last run)
    video_files,       \* get_video_files() of the run (kept from the last run)
    tags_data,         \* the in-memory tag index
    existing_tag_ids,  \* the set of media_id the run takes as tagged
    tagger,            \* whether the CLIP pipeline is loaded
    idx,               \* videos of video_files the loop has visited
    success_count,
    calls,             \* invocations in this run: generators and classifier
    start,             \* files and table as they were when the run began
    ev,                \* what happened in this run; duration: the last one probed,
                       \* used: the calls that failed in the last turn of the loop
    same,              \* this run repeats the last one: same answers, same scan
    gen,               \* a generator call observed on its own
    call               \* a helper call observed on its own

vars == <<variant, disk, files, dirs, table, pc, run, faults, cfg, video_files,
          tags_data, existing_tag_ids, tagger, idx, success_count, calls, start,
          ev, same, gen, call>>

\* The defaults of the two prompts: "Enter number of tags (default 15)" and
\* "(default 30)".
NumTagsChoices == {15, 30}

\* prompt_user(): the answers that decide what a run does to files and tags.
\* GIFs are asked for in process_media.py only, the cache question only when
\* something is generated, the tag count only when tags are.
Configs(var) ==
    {c \in [generate_thumbs : BOOLEAN, generate_gifs : BOOLEAN, generate_tags : BOOLEAN,
            clear_cache : BOOLEAN, num_tags : NumTagsChoices] :
        /\ var = "tm" => ~c.generate_gifs
        /\ c.clear_cache => (c.generate_thumbs \/ c.generate_gifs \/ c.generate_tags)
        /\ ~c.generate_tags => c.num_tags = 15}

NoCalls == [jpeg |-> 0, webm |-> 0, gif |-> 0, clf |-> 0]

NoEvents == [scan_failed |-> FALSE, backup_failed |-> FALSE, delete_failed |-> FALSE,
             cleared |-> FALSE, cleaned |-> FALSE, load_failed |-> FALSE,
             tool_failed |-> FALSE, duration |-> 0, used |-> {}]

NoGen == [called |-> FALSE, tool |-> "none", duration |-> 0, segment_length |-> 0,
          failAt |-> 0, kept |-> {}, before |-> {}, ok |-> FALSE, calls |-> 0,
          timestamp |-> 0, starts |-> <<>>, concat |-> <<>>]

\* No helper call is observed.
NoCall == [name |-> "none"]

Init ==
    /\ variant \in {"pm", "tm"}
    /\ disk \in {d \in SUBSET Videos : Cardinality(d) <= MaxVideos}
    /\ files = {}
    /\ dirs = {}
    /\ table = NoTable
    /\ pc = "idle"
    /\ run = 0
    /\ faults = 0
    /\ cfg = [generate_thumbs |-> FALSE, generate_gifs |-> FALSE, generate_tags |-> FALSE,
              clear_cache |-> FALSE, num_tags |-> 15]
    /\ video_files = <<>>
    /\ tags_data = <<>>
    /\ existing_tag_ids = {}
    /\ tagger = FALSE
    /\ idx = 0
    /\ success_count = 0
    /\ calls = NoCalls
    /\ start = [files |-> {}, table |-> NoTable]
    /\ ev = NoEvents
    /\ same = FALSE
    /\ gen = NoGen
    /\ call = NoCall

\* The video directory changes between runs: a video is taken away.
RemoveVideo(v) ==
    /\ pc = "idle"
    /\ run > 0
    /\ v \in disk
    /\ disk' = disk \ {v}
    /\ UNCHANGED <<variant, files, dirs, table, pc, run, faults, cfg, video_files,
                   tags_data, existing_tag_ids, tagger, idx, success_count, calls,
                   start, ev, same, gen, call>>

\* get_video_files(): the sorted paths, or [] when the scan raises.
get_video_files(scan_ok) == IF scan_ok THEN SortedSeq(disk) ELSE <<>>

\* process_media(), up to "if clear_cache": the answers, the scan, the load
\* of the tag table.  tag_media.py loads it only when tags are generated.
StartRun(c, scan_ok) ==
    /\ pc = "idle"
    /\ run < MaxRuns
    /\ scan_ok \/ faults < MaxFaults
    /\ faults' = IF scan_ok THEN faults ELSE faults + 1
    /\ cfg' = c
    /\ video_files' = get_video_files(scan_ok)
    /\ tags_data' = IF variant = "pm" \/ c.generate_tags
                    THEN load_existing_tags(table) ELSE <<>>
    /\ existing_tag_ids' = {tags_data'[k].media_id : k \in 1 .. Len(tags_data')}
    /\ tagger' = FALSE
    /\ idx' = 0
    /\ success_count' = 0
    /\ calls' = NoCalls
    /\ start' = [files |-> files, table |-> table]
    /\ ev' = [NoEvents EXCEPT !.scan_failed = ~scan_ok]
    /\ same' = (run > 0 /\ c = cfg /\ ~c.clear_cache
                /\ video_files' = video_files)
    /\ pc' = IF c.clear_cache THEN "cache_clear" ELSE "model_load"
    /\ UNCHANGED <<variant, disk, files, dirs, table, run, gen, call>>

\* ------------------------------------------------------------ cache clear

PreviewFiles(fs) == {f \in fs : f.dir = "preview"}

GifFiles(fs) == {f \in fs : f.dir = "gif"}

\* The copies of the cache-clear: a failure of one of them ends the run.
BackupFailures == {"backup_thumbs", "backup_gifs", "backup_tags"}

\* The rmtree calls placed before the copies: a failed copy finds the live
\* files already removed.
cache_clear_files_pm_rmtree_first(fs, fail, kept) == kept

\* process_media.py: the files the try block of the cache-clear leaves.  A
\* failed copy raises before the rmtree calls; otherwise what rmtree could
\* not remove ("kept") stays.
cache_clear_files_pm(fs, fail, kept) ==
    IF fail \in BackupFailures THEN fs ELSE kept

\* A cache-clear of tag_media.py that removes no file.
cache_clear_files_tm_keep(fs, fail, kept) == fs

\* tag_media.py: the files the cache-clear leaves.  A failed copy returns
\* before rmtree(preview_dir), which removes the preview files but "kept".
cache_clear_files_tm(fs, fail, kept) ==
    IF fail \in BackupFailures THEN fs ELSE (fs \ PreviewFiles(fs)) \cup kept

\* process_media.py, "if clear_cache": one try block.  The three copies,
\* then rmtree(..., ignore_errors=True) twice (what cannot be removed, the
\* files of "kept", stays and nothing is raised), then the unlink of the tag
\* table, then the mkdirs.  Any exception ends the run.  shutil.copy of the
\* tag table raises when no copytree made the backup directory before it.
CacheClearPM(fail, kept) ==
    /\ pc = "cache_clear"
    /\ variant = "pm"
    /\ fail \in {"none", "backup_thumbs", "backup_gifs", "backup_tags", "unlink_tags"}
    /\ fail = "backup_thumbs" => "preview" \in dirs
    /\ fail = "backup_gifs" => "gif" \in dirs
    /\ fail \in {"backup_tags", "unlink_tags"} => table.exists
    /\ LET forced == table.exists /\ dirs = {}
           backup == fail \in BackupFailures
           cost   == (IF fail = "none" \/ (forced /\ fail = "backup_tags") THEN 0 ELSE 1)
                     + Cardinality(kept)
       IN  /\ forced => fail = "backup_tags"
           /\ backup => kept = {}
           /\ kept \subseteq files
           /\ faults + cost <= MaxFaults
           /\ faults' = faults + cost
           /\ files' = cache_clear_files_pm(files, fail, kept)
           /\ IF backup
              THEN /\ ev' = [ev EXCEPT !.backup_failed = TRUE]
                   /\ pc' = "aborted"
                   /\ UNCHANGED <<dirs, table, tags_data, existing_tag_ids, call>>
              ELSE /\ IF fail = "unlink_tags"
                      THEN /\ ev' = [ev EXCEPT !.delete_failed = TRUE]
                           /\ pc' = "aborted"
                           /\ dirs' = {d \in dirs : \E f \in kept : f.dir = d}
                           /\ UNCHANGED <<table, tags_data, existing_tag_ids, call>>
                      ELSE /\ ev' = [ev EXCEPT !.cleared = TRUE,
                                               !.delete_failed = (kept # {})]
                           /\ pc' = "model_load"
                           /\ dirs' = {"preview", "gif"}
                           /\ table' = NoTable
                           /\ tags_data' = <<>>
                           /\ existing_tag_ids' = {}
    /\ UNCHANGED <<variant, disk, run, cfg, video_files, tagger, idx, success_count,
                   calls, start, same, gen, call>>

\* tag_media.py, "Handle cache clearing": each copy in its own try (a
\* failure returns), then one try around rmtree(preview_dir), the unlink of
\* the tag table and the mkdir (a failure returns; rmtree stops at the
\* first file it cannot remove, the files of "kept" are still there).
CacheClearTM(fail, kept) ==
    /\ pc = "cache_clear"
    /\ variant = "tm"
    /\ fail \in {"none", "backup_thumbs", "backup_tags", "rmtree", "unlink_tags"}
    /\ fail \in {"backup_thumbs", "rmtree"} => "preview" \in dirs
    /\ fail \in {"backup_tags", "unlink_tags"} => table.exists
    /\ (fail = "rmtree") = (kept # {})
    /\ kept \subseteq PreviewFiles(files)
    /\ faults + (IF fail = "none" THEN 0 ELSE 1) <= MaxFaults
    /\ faults' = faults + (IF fail = "none" THEN 0 ELSE 1)
    /\ files' = cache_clear_files_tm(files, fail, kept)
    /\ IF fail \in BackupFailures
       THEN /\ ev' = [ev EXCEPT !.backup_failed = TRUE]
            /\ pc' = "aborted"
            /\ UNCHANGED <<dirs, table, tags_data, existing_tag_ids, call>>
       ELSE IF fail = "rmtree"
       THEN /\ ev' = [ev EXCEPT !.delete_failed = TRUE]
            /\ pc' = "aborted"
            /\ UNCHANGED <<dirs, table, tags_data, existing_tag_ids, call>>
       ELSE IF fail = "unlink_tags"
       THEN /\ ev' = [ev EXCEPT !.delete_failed = TRUE]
            /\ pc' = "aborted"
            /\ dirs' = dirs \ {"preview"}
            /\ UNCHANGED <<table, tags_data, existing_tag_ids, call>>
       ELSE /\ ev' = [ev EXCEPT !.cleared = TRUE]
            /\ pc' = "model_load"
            /\ dirs' = dirs \cup {"preview"}
            /\ table' = NoTable
            /\ tags_data' = <<>>
            /\ existing_tag_ids' = {}
    /\ UNCHANGED <<variant, disk, run, cfg, video_files, tagger, idx, success_count,
                   calls, start, same, gen, call>>

\* "tagger = None; if generate_tags: try: tagger = pipeline(...)": a load
\* failure is logged and the run goes on without a tagger.
ModelLoad(ok) ==
    /\ pc = "model_load"
    /\ ok \/ (cfg.generate_tags /\ faults < MaxFaults)
    /\ faults' = IF ok THEN faults ELSE faults + 1
    /\ tagger' = (cfg.generate_tags /\ ok)
    /\ ev' = [ev EXCEPT !.load_failed = ~ok]
    /\ pc' = "cleanup"
    /\ UNCHANGED <<variant, disk, files, dirs, table, run, cfg, video_files, tags_data,
                   existing_tag_ids, idx, success_count, calls, start, same, gen, call>>

\* Whether the run calls clean_thumbnails_and_gifs / clean_thumbnails:
\* "if (generate_thumbs or generate_gifs) and not clear_cache" in
\* process_media.py, "if generate_thumbs and not clear_cache" in tag_media.py.
CleanupWanted ==
    IF variant = "pm"
    THEN (cfg.generate_thumbs \/ cfg.generate_gifs) /\ ~cfg.clear_cache
    ELSE cfg.generate_thumbs /\ ~cfg.clear_cache

\* The files the cleanup pass tries to unlink.
Orphans(fs, video_ids) ==
    IF variant = "pm"
    THEN OrphanPreviews(fs, video_ids) \cup OrphanGifs(fs, video_ids)
    ELSE OrphanPreviews(fs, video_ids)

\* clean_thumbnails_and_gifs(video_files) / clean_thumbnails(video_files):
\* the unlink of a file of "failed" raises OSError, which is logged.
OrphanCleanup(failed) ==
    /\ pc = "cleanup"
    /\ IF CleanupWanted
       THEN /\ failed \subseteq Orphans(files, VideoIds(video_files))
            /\ faults + Cardinality(failed) <= MaxFaults
            /\ files' = files \ (Orphans(files, VideoIds(video_files)) \ failed)
            /\ dirs' = dirs \cup (IF variant = "pm" THEN {"preview", "gif"} ELSE {"preview"})
            /\ ev' = [ev EXCEPT !.cleaned = TRUE, !.delete_failed = (failed # {})]
       ELSE /\ failed = {}
            /\ UNCHANGED <<files, dirs, ev, call>>
    /\ faults' = faults + Cardinality(failed)
    /\ pc' = "loop"
    /\ UNCHANGED <<variant, disk, table, run, cfg, video_files, tags_data,
                   existing_tag_ids, tagger, idx, success_count, calls, start, same, gen, call>>

\* ---------------------------------------------------------- the video loop

\* What the external tools do in one iteration of the loop: whether ffprobe
\* gives the duration, whether the still-frame call succeeds, where
\* generate_webm and generate_gif fail (0: nowhere), what the classifier
\* does for the GIF entry and for the video entry.
ClfOutcomes == {"tags", "empty", "error"}

AllOk == [probe |-> TRUE, jpeg |-> TRUE, webm |-> 0, gif |-> 0,
          clf_gif |-> "tags", clf |-> "tags"]

\* The failures an outcome holds.
FaultsOf(o) ==
    {x \in {"probe", "jpeg", "webm", "gif", "clf_gif", "clf"} : o[x] # AllOk[x]}

Outcomes ==
    {o \in [probe : BOOLEAN, jpeg : BOOLEAN, webm : 0 .. 4, gif : 0 .. 6,
            clf_gif : ClfOutcomes, clf : ClfOutcomes] :
        Cardinality(FaultsOf(o)) <= MaxFaults}

\* get_video_duration: the probed duration, 0 when ffprobe fails.
get_video_duration(v, probe_ok) == IF probe_ok THEN VideoPool[v].dur ELSE 0

\* The part of the state one iteration works on, with the failures of the
\* outcome it has met ("used").
Local ==
    [files |-> files, table |-> table, tags_data |-> tags_data,
     existing |-> existing_tag_ids, calls |-> calls, success |-> success_count,
     used |-> {}]

\* The thumbnail stage without its "continue": the iteration goes on after
\* a generator has returned nothing.
ThumbsStage_go_on(L, video_id, duration, o) ==
    LET need_jpeg == JpegPath(video_id) \notin L.files
        j  == IF need_jpeg THEN generate_jpeg(L.files, video_id, o.jpeg)
              ELSE [files |-> L.files, ok |-> TRUE]
        Lj == [L EXCEPT !.files = j.files,
                        !.calls.jpeg = @ + (IF need_jpeg THEN 1 ELSE 0),
                        !.used = @ \cup (IF need_jpeg /\ ~j.ok THEN {"jpeg"} ELSE {})]
        need_webm == WebmPath(video_id) \notin j.files
        w  == IF need_webm THEN generate_webm(j.files, video_id, duration, o.webm, {})
              ELSE [files |-> j.files, ok |-> TRUE]
        Lw == [Lj EXCEPT !.files = w.files,
                         !.calls.webm = @ + (IF need_webm THEN 1 ELSE 0),
                         !.used = @ \cup (IF need_webm /\ ~w.ok THEN {"webm"} ELSE {})]
    IN  [L |-> Lw, cont |-> TRUE]

\* The thumbnail stage without its existence checks: both generators are
\* called for every video.
ThumbsStage_always(L, video_id, duration, o) ==
    LET j  == generate_jpeg(L.files, video_id, o.jpeg)
        Lj == [L EXCEPT !.files = j.files,
                        !.calls.jpeg = @ + 1,
                        !.used = @ \cup (IF ~j.ok THEN {"jpeg"} ELSE {})]
        w  == generate_webm(j.files, video_id, duration, o.webm, {})
        Lw == [Lj EXCEPT !.files = w.files,
                         !.calls.webm = @ + 1,
                         !.used = @ \cup (IF ~w.ok THEN {"webm"} ELSE {})]
    IN  IF ~j.ok THEN [L |-> Lj, cont |-> FALSE]
        ELSE [L |-> Lw, cont |-> w.ok]

\* "if generate_thumbs:" of both scripts: the still frame, then the clip,
\* each generated only when its canonical file is missing; "continue" when
\* a generator returns nothing.  cont: the iteration goes on.
ThumbsStage(L, video_id, duration, o) ==
    LET need_jpeg == JpegPath(video_id) \notin L.files
        j  == IF need_jpeg THEN generate_jpeg(L.files, video_id, o.jpeg)
              ELSE [files |-> L.files, ok |-> TRUE]
        Lj == [L EXCEPT !.files = j.files,
                        !.calls.jpeg = @ + (IF need_jpeg THEN 1 ELSE 0),
                        !.used = @ \cup (IF need_jpeg /\ ~j.ok THEN {"jpeg"} ELSE {})]
        need_webm == WebmPath(video_id) \notin j.files
        w  == IF need_webm THEN generate_webm(j.files, video_id, duration, o.webm, {})
              ELSE [files |-> j.files, ok |-> TRUE]
        Lw == [Lj EXCEPT !.files = w.files,
                         !.calls.webm = @ + (IF need_webm THEN 1 ELSE 0),
                         !.used = @ \cup (IF need_webm /\ ~w.ok THEN {"webm"} ELSE {})]
    IN  IF ~j.ok THEN [L |-> Lj, cont |-> FALSE]
        ELSE [L |-> Lw, cont |-> w.ok]

\* The entry a successful tagging appends: append_tags, tags_data.append,
\* existing_tag_ids.add.
AddEntryPM(L, media_id, media_type, tags) ==
    LET e == NewEntry(media_id, media_type, tags)
    IN  [L EXCEPT !.table = append_tags(L.table, e),
                  !.tags_data = Append(@, e),
                  !.existing = @ \cup {media_id}]

\* [id.replace("gif_", "") for id in existing_tag_ids if id.startswith("gif_")]
GifTaggedIds(existing) == {Replace(id, "gif_") : id \in {x \in existing : StartsWithGif(x)}}

\* process_media.py, "if generate_gifs and not gif_path.exists() and ...":
\* the GIF, "continue" when it fails, then its tag entry from the still
\* frame through tag_image.
GifStagePM(L, video_id, duration, o) ==
    IF cfg.generate_gifs /\ GifPath(video_id) \notin L.files
       /\ video_id \notin GifTaggedIds(L.existing)
    THEN LET g  == generate_gif(L.files, video_id, duration, o.gif)
             Lg == [L EXCEPT !.files = g.files, !.calls.gif = @ + 1,
                             !.used = @ \cup (IF g.ok THEN {} ELSE {"gif"})]
             asked == cfg.generate_tags /\ tagger
             seen  == asked /\ JpegPath(video_id) \in g.files
             tags  == tag_image(g.files, JpegPath(video_id), o.clf_gif, cfg.num_tags)
             Lc == [Lg EXCEPT !.calls.clf = @ + (IF seen THEN 1 ELSE 0),
                              !.used = @ \cup (IF seen /\ o.clf_gif # "tags"
                                               THEN {"clf_gif"} ELSE {})]
         IN  IF ~g.ok THEN [L |-> Lg, cont |-> FALSE]
             ELSE IF asked /\ tags # <<>>
             THEN [L |-> AddEntryPM(Lc, GifMediaId(video_id), "gif", tags), cont |-> TRUE]
             ELSE [L |-> Lc, cont |-> TRUE]
    ELSE [L |-> L, cont |-> TRUE]

\* process_media.py, "if generate_tags and video_id not in existing_tag_ids
\* and jpeg_url": the classifier is called directly, so an exception of it
\* ends the iteration in "except Exception" before success_count += 1.
TagStagePM(L, video_id, jpeg_url, o) ==
    IF cfg.generate_tags /\ video_id \notin L.existing /\ jpeg_url
    THEN LET Lc == [L EXCEPT !.calls.clf = @ + (IF tagger THEN 1 ELSE 0),
                             !.used = @ \cup (IF tagger /\ o.clf # "tags"
                                              THEN {"clf"} ELSE {})]
             tags == IF tagger /\ o.clf = "tags" THEN TopLabels(cfg.num_tags) ELSE <<>>
         IN  IF tagger /\ o.clf = "error" THEN [L |-> Lc, cont |-> FALSE]
             ELSE IF tags # <<>>
             THEN [L |-> AddEntryPM(Lc, video_id, "video", tags), cont |-> TRUE]
             ELSE [L |-> Lc, cont |-> TRUE]
    ELSE [L |-> L, cont |-> TRUE]

\* One iteration of the loop of process_media.py.
IterationPM(v, o) ==
    LET video_id == Stem(v)
        duration == get_video_duration(v, o.probe)
        L0 == [Local EXCEPT !.used = IF o.probe THEN {} ELSE {"probe"}]
        t  == IF cfg.generate_thumbs THEN ThumbsStage(L0, video_id, duration, o)
              ELSE [L |-> L0, cont |-> TRUE]
        g  == GifStagePM(t.L, video_id, duration, o)
        c  == TagStagePM(g.L, video_id, cfg.generate_thumbs, o)
    IN  IF duration < Sec(MinDurationSec) THEN L0
        ELSE IF ~t.cont THEN t.L
        ELSE IF ~g.cont THEN g.L
        ELSE IF ~c.cont THEN c.L
        ELSE [c.L EXCEPT !.success = @ + 1]

\* tag_media.py, "if generate_tags and video_id not in existing_tag_ids":
\* an entry is appended to tags_data whatever tag_image returned, and
\* success_count is counted here.
TagStageTM(L, video_id, o) ==
    IF cfg.generate_tags /\ video_id \notin L.existing
    THEN LET seen == tagger /\ JpegPath(video_id) \in L.files
             tags == IF tagger
                     THEN tag_image(L.files, JpegPath(video_id), o.clf, cfg.num_tags)
                     ELSE <<>>
         IN  [L EXCEPT !.calls.clf = @ + (IF seen THEN 1 ELSE 0),
                       !.used = @ \cup (IF seen /\ o.clf # "tags" THEN {"clf"} ELSE {}),
                       !.tags_data = Append(@, NewEntry(video_id, "video", tags)),
                       !.success = @ + 1]
    ELSE L

\* One iteration of the loop of tag_media.py.
IterationTM(v, o) ==
    LET video_id == Stem(v)
        duration == get_video_duration(v, o.probe)
        L0 == [Local EXCEPT !.used = IF o.probe THEN {} ELSE {"probe"}]
        t  == IF cfg.generate_thumbs THEN ThumbsStage(L0, video_id, duration, o)
              ELSE [L |-> L0,
                    cont |-> JpegPath(video_id) \in files /\ WebmPath(video_id) \in files]
    IN  IF duration < Sec(MinDurationSec) THEN L0
        ELSE IF ~t.cont THEN t.L
        ELSE TagStageTM(t.L, video_id, o)

\* The loop body without the "duration < 5" test.
Iteration_no_floor(v, o) ==
    LET video_id == Stem(v)
        duration == get_video_duration(v, o.probe)
        L0 == [Local EXCEPT !.used = IF o.probe THEN {} ELSE {"probe"}]
        t  == IF cfg.generate_thumbs THEN ThumbsStage(L0, video_id, duration, o)
              ELSE [L |-> L0, cont |-> TRUE]
    IN  IF ~t.cont THEN t.L ELSE TagStageTM(t.L, video_id, o)

Iteration(v, o) == IF variant = "pm" THEN IterationPM(v, o) ELSE IterationTM(v, o)

\* "for i, video_path in enumerate(video_files, 1)": the next video.  The
\* generators make their directories (mkdir(parents=True, exist_ok=True)).
ProcessVideo(o) ==
    /\ pc = "loop"
    /\ idx < Len(video_files)
    /\ \E r \in {Iteration(video_files[idx + 1], o)} :
           /\ r.used = FaultsOf(o)
           /\ faults + Cardinality(r.used) <= MaxFaults
           /\ faults' = faults + Cardinality(r.used)
           /\ files' = r.files
           /\ table' = r.table
           /\ tags_data' = r.tags_data
           /\ existing_tag_ids' = r.existing
           /\ calls' = r.calls
           /\ success_count' = r.success
           /\ dirs' = dirs \cup (IF r.calls.jpeg + r.calls.webm > calls.jpeg + calls.webm
                                 THEN {"preview"} ELSE {})
                           \cup (IF r.calls.gif > calls.gif THEN {"gif"} ELSE {})
           /\ ev' = [ev EXCEPT !.tool_failed = @ \/ r.used # {},
                                !.duration = get_video_duration(video_files[idx + 1], o.probe),
                                !.used = r.used]
    /\ idx' = idx + 1
    /\ UNCHANGED <<variant, disk, pc, run, cfg, video_files, tagger, start, same, gen, call>>

\* After the loop: clean_orphaned_tags; in tag_media.py the table is then
\* written when tags_data is not empty; the tagger is dropped.
FinishRun ==
    /\ pc = "loop"
    /\ idx = Len(video_files)
    /\ tags_data' = IF ~cfg.generate_tags THEN tags_data
                    ELSE IF variant = "pm"
                    THEN clean_orphaned_tags_pm(tags_data, video_files)
                    ELSE clean_orphaned_tags_tm(tags_data, video_files)
    /\ table' = IF variant = "tm" /\ cfg.generate_tags /\ tags_data' # <<>>
                THEN write_tags(tags_data', cfg.num_tags)
                ELSE table
    /\ tagger' = FALSE
    /\ pc' = "done"
    /\ UNCHANGED <<variant, disk, files, dirs, run, faults, cfg, video_files,
                   existing_tag_ids, idx, success_count, calls, start, ev, same, gen, call>>

\* process_media() has returned; the next run may start.
Return ==
    /\ pc \in {"done", "aborted"}
    /\ pc' = "idle"
    /\ run' = run + 1
    /\ tags_data' = <<>>
    /\ existing_tag_ids' = {}
    /\ tagger' = FALSE
    /\ idx' = 0
    /\ success_count' = 0
    /\ calls' = NoCalls
    /\ start' = [files |-> {}, table |-> NoTable]
    /\ ev' = NoEvents
    /\ same' = FALSE
    /\ UNCHANGED <<variant, disk, files, dirs, table, faults, cfg, video_files, gen, call>>

Next ==
    \/ \E v \in Videos : RemoveVideo(v)
    \/ \E c \in Configs(variant), scan_ok \in BOOLEAN : StartRun(c, scan_ok)
    \/ \E fail \in {"none", "backup_thumbs", "backup_gifs", "backup_tags", "unlink_tags"},
          kept \in SmallSubsets(files, MaxFaults - faults) : CacheClearPM(fail, kept)
    \/ \E fail \in {"none", "backup_thumbs", "backup_tags", "rmtree", "unlink_tags"},
          kept \in SmallSubsets(files, MaxFaults - faults) : CacheClearTM(fail, kept)
    \/ \E ok \in BOOLEAN : ModelLoad(ok)
    \/ \E failed \in SmallSubsets(files, MaxFaults - faults) : OrphanCleanup(failed)
    \/ \E o \in Outcomes : ProcessVideo(o)
    \/ FinishRun
    \/ Return

Spec == Init /\ [][Next]_vars

\* ------------------------------------------- a generator call on its own

\* The durations drawn for a generator call: every multiple of half a
\* second up to MaxDurSec.
GenDurations == {k * 10 : k \in 0 .. 2 * MaxDurSec}

\* The video the generators are called for.
GenId == <<"a">>

\* Files an earlier, failed call for the same video may have left.
GenLeftovers ==
    {File("preview", GenId \o <<"_start">>, "webm"), GifSegmentPath(GenId, 1)}

InitGen ==
    /\ variant \in {"pm", "tm"}
    /\ disk = {}
    /\ files \in {{}, GenLeftovers}
    /\ dirs = {}
    /\ table = NoTable
    /\ pc = "idle"
    /\ run = 0
    /\ faults = 0
    /\ cfg = [generate_thumbs |-> TRUE, generate_gifs |-> FALSE, generate_tags |-> FALSE,
              clear_cache |-> FALSE, num_tags |-> 15]
    /\ video_files = <<>>
    /\ tags_data = <<>>
    /\ existing_tag_ids = {}
    /\ tagger = FALSE
    /\ idx = 0
    /\ success_count = 0
    /\ calls = NoCalls
    /\ start = [files |-> {}, table |-> NoTable]
    /\ ev = NoEvents
    /\ same = FALSE
    /\ gen \in {[NoGen EXCEPT !.duration = d, !.segment_length = n] :
                    d \in GenDurations, n \in 1 .. MaxSegmentLength}
    /\ call = NoCall

\* generate_jpeg(file_path, video_id, duration, resolution): the "-ss"
\* argument and the outcome of its ffmpeg call.
CallGenerateJpeg(ok) ==
    /\ ~gen.called
    /\ LET r == generate_jpeg(files, GenId, ok)
       IN  /\ files' = r.files
           /\ gen' = [gen EXCEPT !.called = TRUE, !.tool = "jpeg", !.before = files,
                                 !.timestamp = JpegTimestamp(gen.duration),
                                 !.ok = r.ok, !.calls = 1]
    /\ UNCHANGED <<variant, disk, dirs, table, pc, run, faults, cfg, video_files,
                   tags_data, existing_tag_ids, tagger, idx, success_count, calls,
                   start, ev, same, call>>

\* generate_webm(file_path, video_id, duration, fps, resolution,
\* segment_length), called by the loop for a video of at least 5 s: the
\* "-ss" arguments of its segment calls, the files and the result.
CallGenerateWebm(failAt, kept) ==
    /\ ~gen.called
    /\ gen.duration >= Sec(MinDurationSec)
    /\ failAt <= Len(Clips(GenId, gen.duration))
                 + (IF gen.duration > Sec(LongDurationSec) THEN 1 ELSE 0)
    /\ kept # {} => (failAt = 0 /\ gen.duration > Sec(LongDurationSec))
    /\ LET r == generate_webm(files, GenId, gen.duration, failAt, kept)
       IN  /\ files' = r.files
           /\ gen' = [gen EXCEPT !.called = TRUE, !.tool = "webm", !.before = files,
                                 !.failAt = failAt, !.kept = kept,
                                 !.starts = SubSeq(SegmentStarts(gen.duration, gen.segment_length),
                                                   1, r.calls),
                                 !.ok = r.ok, !.calls = r.calls, !.concat = r.concat]
    /\ UNCHANGED <<variant, disk, dirs, table, pc, run, faults, cfg, video_files,
                   tags_data, existing_tag_ids, tagger, idx, success_count, calls,
                   start, ev, same, call>>

\* generate_gif(file_path, video_id, duration)
CallGenerateGif(failAt) ==
    /\ ~gen.called
    /\ GifTooShort(gen.duration) => failAt = 0
    /\ LET r == generate_gif(files, GenId, gen.duration, failAt)
       IN  /\ files' = r.files
           /\ gen' = [gen EXCEPT !.called = TRUE, !.tool = "gif", !.before = files,
                                 !.failAt = failAt, !.ok = r.ok, !.calls = r.calls]
    /\ UNCHANGED <<variant, disk, dirs, table, pc, run, faults, cfg, video_files,
                   tags_data, existing_tag_ids, tagger, idx, success_count, calls,
                   start, ev, same, call>>

\* The segment files of the clip of GenId.
GenSegments ==
    {File("preview", GenId \o <<t>>, "webm") : t \in {"_start", "_middle", "_end"}}

NextGen ==
    \/ \E ok \in BOOLEAN : CallGenerateJpeg(ok)
    \/ \E failAt \in 0 .. 4, kept \in SUBSET GenSegments : CallGenerateWebm(failAt, kept)
    \/ \E failAt \in 0 .. 6 : CallGenerateGif(failAt)

SpecGen == InitGen /\ [][NextGen]_vars

\* ------------------------------------------- the candidate-label loader

\* A label name: a word and whether it is written with capitals.
LabelName(w, up) == [w |-> w, up |-> up]

\* The name of a row without one ('' or NaN).
NoName == [w |-> 0, up |-> FALSE]

\* str.lower()
Lower(name) == [name EXCEPT !.up = FALSE]

\* DEFAULT_CANDIDATE_TAGS: 20 names in lower case.
DEFAULT_CANDIDATE_TAGS == [k \in 1 .. DefaultLabels |-> LabelName(1000 + k, FALSE)]

\* The states of INPUT_TAGS and of EXCLUSIONS.
LabelStates == {"missing", "unparsable", "error", "no_columns", "ok"}

ExclusionStates == {"missing", "unparsable", "error", "no_name", "ok"}

\* A label table of n rows with distinct counts: row 1 has count 100 (not
\* above the limit), row 2 has no name, every second name has capitals.
LabelRows(n) ==
    [k \in 1 .. n |->
        [name  |-> IF k = 2 THEN NoName ELSE LabelName(k, k % 2 = 1),
         count |-> MinCount - 1 + k]]

LabelTables ==
    {[state |-> st, rows |-> <<>>] : st \in LabelStates \ {"ok"}}
    \cup {[state |-> "ok", rows |-> LabelRows(n)] : n \in 0 .. MaxNames}

\* The exclusions tables for a label table: none of its names, all of them
\* as written, all but the third with the capitals the other way round,
\* the two of the highest count with the capitals the other way round.
ExclusionTables(rows) ==
    {[state |-> st, names |-> {}] : st \in ExclusionStates}
    \cup {[state |-> "ok", names |-> {rows[k].name : k \in 1 .. Len(rows)}],
          [state |-> "ok",
           names |-> {LabelName(rows[k].name.w, ~rows[k].name.up) : k \in 4 .. Len(rows)}],
          [state |-> "ok",
           names |-> {LabelName(rows[k].name.w, ~rows[k].name.up) :
                        k \in Max(4, Len(rows) - 1) .. Len(rows)}]}

\* What pd.read_csv raises for a file in this state.
ReadError(state) ==
    CASE state = "missing"    -> "FileNotFoundError"
      [] state = "unparsable" -> "ParserError"
      [] state = "error"      -> "Exception"
      [] OTHER                -> "none"

\* valid_tags.sort_values('count', ascending=False)['name'].tolist() over
\* the rows of S.
RECURSIVE SortedNames(_, _)
SortedNames(rows, S) ==
    IF S = {} THEN <<>>
    ELSE LET m == CHOOSE i \in S : \A j \in S :
                      \/ rows[i].count > rows[j].count
                      \/ rows[i].count = rows[j].count /\ i <= j
         IN  <<rows[m].name>> \o SortedNames(rows, S \ {m})

\* The handlers of the try around the read of EXCLUSIONS: FileNotFoundError
\* and ParserError in both scripts, "except Exception" in tag_media.py only.
InnerCaught(var, exc) ==
    exc \in {"FileNotFoundError", "ParserError"} \/ (var = "tm" /\ exc = "Exception")

\* The outer handlers without the last one.
OuterCaught_narrow(exc) == exc \in {"FileNotFoundError", "ParserError"}

\* The handlers of the outer try: FileNotFoundError, ParserError, Exception.
OuterCaught(exc) == exc \in {"FileNotFoundError", "ParserError", "Exception"}

\* load_candidate_tags(): the names of the rows with a name and a count
\* above 100, by falling count, without the excluded ones (compared in
\* lower case), cut to 50; the default list when nothing is left, when
\* the columns are missing or when a handler of the outer try catches.
load_candidate_tags(var, labels, exclusions) ==
    LET rows  == labels.rows
        valid == {k \in 1 .. Len(rows) : rows[k].name # NoName /\ rows[k].count > MinCount}
        tags  == SortedNames(rows, valid)
        e1    == ReadError(labels.state)
        e2    == ReadError(exclusions.state)
        excluded_tags == IF exclusions.state = "ok"
                         THEN {Lower(x) : x \in exclusions.names \ {NoName}}
                         ELSE {}
        filtered_tags == SelectSeq(tags, LAMBDA t : Lower(t) \notin excluded_tags)
        body  == IF e1 # "none" THEN [exc |-> e1, tags |-> <<>>]
                 ELSE IF labels.state = "no_columns"
                 THEN [exc |-> "none", tags |-> DEFAULT_CANDIDATE_TAGS]
                 ELSE IF e2 # "none" /\ ~InnerCaught(var, e2) THEN [exc |-> e2, tags |-> <<>>]
                 ELSE IF filtered_tags = <<>>
                 THEN [exc |-> "none", tags |-> DEFAULT_CANDIDATE_TAGS]
                 ELSE [exc |-> "none",
                       tags |-> SubSeq(filtered_tags, 1, Min(Len(filtered_tags), MaxCandidates))]
    IN  IF body.exc = "none" THEN [raised |-> FALSE, tags |-> body.tags]
        ELSE IF OuterCaught(body.exc) THEN [raised |-> FALSE, tags |-> DEFAULT_CANDIDATE_TAGS]
        ELSE [raised |-> TRUE, tags |-> <<>>]

InitLoad ==
    /\ variant \in {"pm", "tm"}
    /\ disk = {}
    /\ files = {}
    /\ dirs = {}
    /\ table = NoTable
    /\ pc = "idle"
    /\ run = 0
    /\ faults = 0
    /\ cfg = [generate_thumbs |-> FALSE, generate_gifs |-> FALSE, generate_tags |-> TRUE,
              clear_cache |-> FALSE, num_tags |-> 15]
    /\ video_files = <<>>
    /\ tags_data = <<>>
    /\ existing_tag_ids = {}
    /\ tagger = FALSE
    /\ idx = 0
    /\ success_count = 0
    /\ calls = NoCalls
    /\ start = [files |-> {}, table |-> NoTable]
    /\ ev = NoEvents
    /\ same = FALSE
    /\ gen = NoGen
    /\ call = NoCall

\* candidate_tags = load_candidate_tags()
CallLoadCandidateTags(labels, exclusions) ==
    /\ call.name = "none"
    /\ call' = [name |-> "load_candidate_tags", labels |-> labels, exclusions |-> exclusions,
                result |-> load_candidate_tags(variant, labels, exclusions)]
    /\ UNCHANGED <<variant, disk, files, dirs, table, pc, run, faults, cfg, video_files,
                   tags_data, existing_tag_ids, tagger, idx, success_count, calls,
                   start, ev, same, gen>>

NextLoad ==
    \E labels \in LabelTables : \E exclusions \in ExclusionTables(labels.rows) :
        CallLoadCandidateTags(labels, exclusions)

SpecLoad == InitLoad /\ [][NextLoad]_vars

\* ----------------------------------------------------- process cleanup

\* A process as psutil.process_iter(['pid', 'name', 'cmdline']) gives it:
\* its name ("none": psutil could not read it), what its command line holds,
\* and what it does when signalled: it exits within the wait, it does not
\* ("hangs"), terminate() raises AccessDenied or NoSuchProcess.
OtherProcs ==
    [name : {"ffmpeg", "python", "other", "none"},
     cmd  : {"process_media.py", "ffmpeg", "other"},
     on_terminate : {"exits", "hangs", "denied", "gone"},
     self : {FALSE}]

\* The process of the run: "python .../process_media.py" or
\* "python .../tag_media.py".  SIGTERM has its default action (no handler
\* is installed), so terminate() ends it.
SelfProc(var) ==
    [name |-> "python",
     cmd  |-> IF var = "pm" THEN "process_media.py" ELSE "tag_media.py",
     on_terminate |-> "exits", self |-> TRUE]

\* The process tables at startup, in the order of process_iter: the run
\* itself among at most MaxProcs other processes.
ProcTables(var) ==
    {q \in UNION {[1 .. n -> OtherProcs \cup {SelfProc(var)}] : n \in 1 .. MaxProcs + 1} :
        Cardinality({k \in 1 .. Len(q) : q[k].self}) = 1}

\* ('ffmpeg' in proc_name or 'python' in proc_name) and
\* any('process_media.py' in arg or 'ffmpeg' in arg for arg in cmdline),
\* the same pattern in both scripts.
Abandoned(p) ==
    p.name \in {"ffmpeg", "python"} /\ p.cmd \in {"process_media.py", "ffmpeg"}

\* The calls on one matched process: terminate(), then wait(timeout=3),
\* and kill() when the wait expires.  NoSuchProcess and AccessDenied of
\* terminate() are caught: "continue".
SignalsTo(k, p) ==
    CASE p.on_terminate \in {"denied", "gone"} -> <<>>
      [] p.on_terminate = "exits" -> <<[pid |-> k, op |-> "terminate"]>>
      [] OTHER -> <<[pid |-> k, op |-> "terminate"], [pid |-> k, op |-> "wait_expired"],
                    [pid |-> k, op |-> "kill"]>>

\* clean_abandoned_processes() from process k on: the signals sent and
\* whether the run is alive when the function is over.  A name psutil could
\* not read makes proc.info['name'].lower() raise AttributeError, which only
\* the outer handler catches: the scan ends there.
RECURSIVE clean_abandoned_processes(_, _)
clean_abandoned_processes(procs, k) ==
    IF k > Len(procs) THEN [signals |-> <<>>, alive |-> TRUE]
    ELSE LET p == procs[k]
         IN  IF p.name = "none" THEN [signals |-> <<>>, alive |-> TRUE]
             ELSE IF ~Abandoned(p) THEN clean_abandoned_processes(procs, k + 1)
             ELSE IF p.self THEN [signals |-> SignalsTo(k, p), alive |-> FALSE]
             ELSE LET r == clean_abandoned_processes(procs, k + 1)
                  IN  [signals |-> SignalsTo(k, p) \o r.signals, alive |-> r.alive]

InitProc ==
    /\ variant \in {"pm", "tm"}
    /\ disk = {}
    /\ files = {}
    /\ dirs = {}
    /\ table = NoTable
    /\ pc = "idle"
    /\ run = 0
    /\ faults = 0
    /\ cfg = [generate_thumbs |-> FALSE, generate_gifs |-> FALSE, generate_tags |-> FALSE,
              clear_cache |-> FALSE, num_tags |-> 15]
    /\ video_files = <<>>
    /\ tags_data = <<>>
    /\ existing_tag_ids = {}
    /\ tagger = FALSE
    /\ idx = 0
    /\ success_count = 0
    /\ calls = NoCalls
    /\ start = [files |-> {}, table |-> NoTable]
    /\ ev = NoEvents
    /\ same = FALSE
    /\ gen = NoGen
    /\ call = NoCall

\* process_media(): clean_abandoned_processes(), then prompt_user() when
\* the run is still alive.
CallCleanAbandonedProcesses(procs) ==
    /\ call.name = "none"
    /\ LET r == clean_abandoned_processes(procs, 1)
       IN  call' = [name |-> "clean_abandoned_processes", procs |-> procs,
                    signals |-> r.signals, alive |-> r.alive,
                    next |-> IF r.alive THEN "prompt_user" ELSE "terminated"]
    /\ UNCHANGED <<variant, disk, files, dirs, table, pc, run, faults, cfg, video_files,
                   tags_data, existing_tag_ids, tagger, idx, success_count, calls,
                   start, ev, same, gen>>

NextProc ==
    /\ call.name = "none"
    /\ \E procs \in ProcTables(variant) : CallCleanAbandonedProcesses(procs)

SpecProc == InitProc /\ [][NextProc]_vars

\* ------------------------------------------------- the prune on its own

\* The media_id a tag table may hold after earlier runs over the videos
\* "a.mp4" and "a_end.mp4": video entries, and in process_media.py the
\* entries of their GIFs.
PruneIds(var) ==
    {Stem(1), Stem(2)}
    \cup (IF var = "pm" THEN {GifMediaId(Stem(1)), GifMediaId(Stem(2))} ELSE {})

\* The tag tables of at most MaxEntries rows with distinct media_id, as
\* written with the default column count.
PruneTables(var) ==
    {NoTable}
    \cup {[exists |-> TRUE, header |-> MinTagCols,
           rows |-> [k \in 1 .. Len(ids) |->
                       WriteRow(NewEntry(ids[k], IF StartsWithGif(ids[k]) THEN "gif" ELSE "video",
                                         <<1>>), MinTagCols)]] :
            ids \in {q \in UNION {[1 .. n -> PruneIds(var)] : n \in 1 .. MaxEntries} :
                        \A i, j \in 1 .. Len(q) : i # j => q[i] # q[j]}}

\* A run with tags only (no generator runs, the loop changes nothing) at
\* the end of its loop: the inventory, the GIF files earlier runs have left
\* and the tag table as load_existing_tags has read it.
InitPrune ==
    /\ variant \in {"pm", "tm"}
    /\ disk \in {d \in SUBSET Videos : Cardinality(d) <= MaxVideos}
    /\ files \in (IF variant = "pm" THEN SUBSET {GifPath(Stem(1)), GifPath(Stem(2))} ELSE {{}})
    /\ dirs = (IF files = {} THEN {} ELSE {"gif"})
    /\ table \in PruneTables(variant)
    /\ pc = "loop"
    /\ run = 1
    /\ faults = 0
    /\ cfg = [generate_thumbs |-> FALSE, generate_gifs |-> FALSE, generate_tags |-> TRUE,
              clear_cache |-> FALSE, num_tags |-> 15]
    /\ video_files = SortedSeq(disk)
    /\ tags_data = load_existing_tags(table)
    /\ existing_tag_ids = {tags_data[k].media_id : k \in 1 .. Len(tags_data)}
    /\ tagger = TRUE
    /\ idx = Len(video_files)
    /\ success_count = 0
    /\ calls = NoCalls
    /\ start = [files |-> files, table |-> table]
    /\ ev = NoEvents
    /\ same = FALSE
    /\ gen = NoGen
    /\ call = NoCall

SpecPrune == InitPrune /\ [][FinishRun]_vars

\* --------------------------------------------------- the loop on its own

\* The videos "a.mp4" and "z/gif_a.mp4".
GifLoopVideos == {1} \cup GifNamedVideos

\* Entries earlier runs of process_media.py may have written for them: the
\* entries of the two videos and of their GIFs.
GifLoopEntries ==
    {NewEntry(Stem(v), "video", <<1>>) : v \in GifLoopVideos}
    \cup {NewEntry(GifMediaId(Stem(v)), "gif", <<1>>) : v \in GifLoopVideos}

GifLoopTables ==
    {NoTable}
    \cup {[exists |-> TRUE, header |-> MinTagCols,
           rows |-> [k \in 1 .. Len(es) |-> WriteRow(es[k], MinTagCols)]] :
            es \in {q \in UNION {[1 .. n -> GifLoopEntries] : n \in 1 .. MaxEntries} :
                       \A i, j \in 1 .. Len(q) : i # j => q[i].media_id # q[j].media_id}}

\* A run of process_media.py with GIFs at the start of its loop, over still
\* frames, GIFs and tag entries of earlier runs.
InitGifLoop ==
    /\ variant = "pm"
    /\ disk \in SUBSET GifLoopVideos \ {{}}
    /\ files \in SUBSET UNION {{JpegPath(Stem(v)), GifPath(Stem(v))} : v \in GifLoopVideos}
    /\ dirs = {"preview", "gif"}
    /\ table \in GifLoopTables
    /\ pc = "loop"
    /\ run = 1
    /\ faults = 0
    /\ cfg \in {c \in Configs("pm") : c.generate_gifs /\ ~c.clear_cache /\ c.num_tags = 15}
    /\ video_files = SortedSeq(disk)
    /\ tags_data = load_existing_tags(table)
    /\ existing_tag_ids = {tags_data[k].media_id : k \in 1 .. Len(tags_data)}
    /\ tagger = cfg.generate_tags
    /\ idx = 0
    /\ success_count = 0
    /\ calls = NoCalls
    /\ start = [files |-> files, table |-> table]
    /\ ev = [NoEvents EXCEPT !.cleaned = TRUE]
    /\ same = FALSE
    /\ gen = NoGen
    /\ call = NoCall

NextGifLoop ==
    \/ \E o \in Outcomes : ProcessVideo(o)
    \/ FinishRun

SpecGifLoop == InitGifLoop /\ [][NextGifLoop]_vars

\* ---------------------------------------------------------------- claims

\* {Path(v).stem for v in video_files} of the run.
LiveIds == VideoIds(video_files)

\* The artifact files of the video with identifier x: its still frame, its
\* clip, the three transient clip segments, its GIF and the five transient
\* GIF segments.
ArtifactsOf(x) ==
    {JpegPath(x), WebmPath(x), GifPath(x)}
    \cup {File("preview", x \o <<t>>, "webm") : t \in {"_start", "_middle", "_end"}}
    \cup {GifSegmentPath(x, i) : i \in 1 .. 5}

\* The orphan-cleanup pass of this run has just ended.
CleanupDone == pc = "loop" /\ idx = 0 /\ ev.cleaned

\* No external call (tool, probe, scan, copy, unlink, model load) has failed
\* so far.
NoFailure == faults = 0

\* No two entries of a sequence of tag entries share a media_id.
UniqueIds(entries) ==
    \A j, k \in 1 .. Len(entries) : entries[j].media_id = entries[k].media_id => j = k

\* C1: idempotence.  When a run ends that repeated the run before it (same
\* answers, no cache-clear, same scan) and no external tool failed in either
\* of them, it has invoked no generator and no classifier, and the tag table
\* is the one the run before it left.
C1_SecondRunIdle ==
    (pc = "done" /\ same /\ NoFailure) => (calls = NoCalls /\ table = start.table)

\* C2: orphan removal.  When the orphan-cleanup pass has ended and no unlink
\* failed, every artifact file left is an artifact of a video of the live
\* set, also for identifiers that hold "_thumb", "_start", "_middle", "_end".
\* Stated for the behaviours without any external failure.
C2_NoOrphanArtifactLeft ==
    (CleanupDone /\ NoFailure)
        => \A f \in files : \E x \in LiveIds : f \in ArtifactsOf(x)

\* C3: the orphan-cleanup pass deletes no still frame, clip or GIF of a
\* video of the live set: those that existed when the run began exist when
\* the pass has ended.  Stated for the behaviours without any external
\* failure.
C3_LiveArtifactsKept ==
    (CleanupDone /\ NoFailure)
        => \A x \in LiveIds :
               \A f \in {JpegPath(x), WebmPath(x), GifPath(x)} :
                   f \in start.files => f \in files

\* C4: after a run with tagging enabled has reached Teardown, every row of
\* the persisted tag table has a media_id of the live set: a video
\* identifier or "gif_" + a video identifier.  Stated for the behaviours
\* without any external failure.
C4_NoOrphanTagPersisted ==
    (pc = "done" /\ cfg.generate_tags /\ NoFailure)
        => \A k \in 1 .. Len(table.rows) :
               \/ table.rows[k].media_id \in LiveIds
               \/ table.rows[k].media_id \in {GifMediaId(x) : x \in LiveIds}

\* C5: a run without cache-clear keeps every row of the persisted tag table
\* whose media_id is a live video identifier: it is in the table after the
\* run, with the same tags, whatever the tag count of the run.  Stated for
\* the behaviours without any external failure.
C5_LiveTagRowsKept ==
    (pc = "done" /\ ~cfg.clear_cache /\ NoFailure)
        => \A k \in 1 .. Len(start.table.rows) :
               start.table.rows[k].media_id \in LiveIds
                   => \E j \in 1 .. Len(table.rows) :
                          /\ table.rows[j].media_id = start.table.rows[k].media_id
                          /\ table.rows[j].tags = start.table.rows[k].tags

\* C6: in every state no two entries of the in-memory tag index and no two
\* rows of the persisted tag table have the same media_id, also when two
\* videos of the inventory have the same file name stem.  Stated for the
\* behaviours without any external failure.
C6_UniqueMediaIds == NoFailure => (UniqueIds(tags_data) /\ UniqueIds(table.rows))

\* C7: when a backup copy of the cache-clear fails, the run returns early
\* and the live artifact files and the tag table are those the run began
\* with: nothing is deleted before every copy has succeeded.
C7_BackupFailureLeavesCache ==
    ev.backup_failed
        => (pc = "aborted" /\ files = start.files /\ table = start.table)

\* C7, its case: a backup copy has failed in a run that began with artifact
\* files and a tag table.
C7_Witness ==
    ev.backup_failed /\ pc = "aborted" /\ start.files # {} /\ start.table.exists

\* C8: a failure to delete the live artifact directory or the tag table in
\* the cache-clear aborts the run: it never goes on to ModelLoad, the orphan
\* cleanup or the loop.
C8_DeleteFailureAborts ==
    (cfg.clear_cache /\ ev.delete_failed) => pc = "aborted"

\* C9: when the scan of the video directory fails, a run without
\* cache-clear deletes no artifact file and changes no row of the tag table
\* that existed when it began.
C9_ScanFailureLeavesCache ==
    (ev.scan_failed /\ ~cfg.clear_cache)
        => (start.files \subseteq files /\ table = start.table)

\* C10: for a duration of at most 60 s for which generate_webm is called
\* (at least 5 s) and a segment length of 1..20, there is one segment and
\* its clamped start lies in [0, duration - segment_length].
C10_SingleClipStartInRange ==
    (gen.called /\ gen.tool = "webm" /\ gen.failAt = 0
        /\ gen.duration <= Sec(LongDurationSec))
        => /\ Len(gen.starts) = 1
           /\ 0 <= gen.starts[1]
           /\ gen.starts[1] <= gen.duration - Sec(gen.segment_length)

\* clamp(x, lo, hi) of the claims: x brought into [lo, hi].
Clamp(x, lo, hi) == IF x < lo THEN lo ELSE IF x > hi THEN hi ELSE x

\* generate_webm has been called for a video longer than 60 s and none of
\* its tool calls has failed.
LongClipMade ==
    gen.tool = "webm" /\ gen.failAt = 0 /\ gen.duration > Sec(LongDurationSec)

\* C11: for a duration above 60 s and a segment length of 1..20,
\* generate_webm cuts three segments whose starts are 10 s, duration / 2
\* and duration - 20 s, each clamped into [0, duration - segment_length],
\* and merges them in the order start, middle, end into the canonical clip.
C11_ThreeSegmentsMergedInOrder ==
    LongClipMade =>
        LET d  == gen.duration
            hi == d - Sec(gen.segment_length)
        IN  /\ gen.starts = <<Clamp(Sec(10), 0, hi), Clamp(d \div 2, 0, hi),
                              Clamp(d - Sec(20), 0, hi)>>
            /\ \A k \in 1 .. 3 : 0 <= gen.starts[k] /\ gen.starts[k] <= hi
            /\ gen.concat = <<File("preview", GenId \o <<"_start">>, "webm"),
                              File("preview", GenId \o <<"_middle">>, "webm"),
                              File("preview", GenId \o <<"_end">>, "webm")>>
            /\ gen.ok
            /\ WebmPath(GenId) \in files

C11_Witness ==
    LongClipMade /\ gen.ok /\ gen.segment_length = MaxSegmentLength
        /\ gen.duration < Sec(LongDurationSec + 2) /\ WebmPath(GenId) \in files

\* C12: the "-ss" argument of generate_jpeg is clamp(0.1 * duration, 0,
\* duration) for every duration >= 0: not negative and not past the end.
C12_JpegTimestampClamped ==
    (gen.tool = "jpeg" /\ gen.duration >= 0) =>
        /\ gen.timestamp = Clamp(gen.duration \div 10, 0, gen.duration)
        /\ 0 <= gen.timestamp
        /\ gen.timestamp <= gen.duration

C12_Witness ==
    gen.tool = "jpeg" /\ gen.duration > 0 /\ gen.duration < Sec(10)
        /\ gen.timestamp > 0 /\ gen.ok

\* C13: for a duration below 5 s generate_gif returns a failed result,
\* calls no external tool and creates no segment and no GIF file.
C13_ShortGifDoesNothing ==
    (gen.tool = "gif" /\ gen.duration < Sec(5)) =>
        (~gen.ok /\ gen.calls = 0 /\ files = gen.before)

C13_Witness ==
    gen.tool = "gif" /\ gen.duration < Sec(5) /\ gen.duration > 0
        /\ ~gen.ok /\ gen.before = GenLeftovers

\* The loop takes the next video of the inventory.
VideoTurn == pc = "loop" /\ idx' = idx + 1

\* C14: a video whose probed duration is below 5 s (0 when the probe fails)
\* is skipped by the loop: its turn calls no generator and no classifier,
\* creates no file and adds no tag entry.
C14_ShortVideoSkipped ==
    [][(VideoTurn /\ ev'.duration < Sec(5))
          => (/\ calls' = calls
              /\ files' = files
              /\ tags_data' = tags_data
              /\ table' = table
              /\ existing_tag_ids' = existing_tag_ids)]_vars

C14_Witness ==
    /\ pc = "loop" /\ idx > 0
    /\ ev.duration < Sec(5)
    /\ VideoPool[video_files[idx]].dur = ev.duration
    /\ cfg.generate_thumbs /\ cfg.generate_tags /\ tagger
    /\ JpegPath(Stem(video_files[idx])) \notin files

\* The media_id of the rows the tag table held when the run began.
StartIds == {start.table.rows[k].media_id : k \in 1 .. Len(start.table.rows)}

\* Every row the table held when the run began for a live video is in the
\* table, with the same tags.
StartRowsKept ==
    \A k \in 1 .. Len(start.table.rows) :
        start.table.rows[k].media_id \in LiveIds
            => \E j \in 1 .. Len(table.rows) :
                  /\ table.rows[j].media_id = start.table.rows[k].media_id
                  /\ table.rows[j].tags = start.table.rows[k].tags

\* C15: in a run without cache-clear, a video whose identifier has a row in
\* the tag table when the run begins gets no classifier call in its turn,
\* and its row is in the table, unchanged, when the run has ended.  Stated
\* for the runs without GIFs and for the behaviours without any external
\* failure.
C15_TaggedVideoNotReclassified ==
    [][(~cfg.clear_cache /\ ~cfg.generate_gifs /\ NoFailure')
          => /\ (VideoTurn /\ Stem(video_files[idx']) \in StartIds)
                    => calls'.clf = calls.clf
             /\ (pc = "loop" /\ pc' = "done") => StartRowsKept']_vars

\* The classifier part of C15 alone.
C15_NoClassifierCall ==
    [][(~cfg.clear_cache /\ ~cfg.generate_gifs /\ NoFailure' /\ VideoTurn
           /\ Stem(video_files[idx']) \in StartIds)
          => calls'.clf = calls.clf]_vars

\* Sequence s is the beginning of sequence t.
IsPrefix(s, t) == Len(s) <= Len(t) /\ SubSeq(t, 1, Len(s)) = s

\* C16: whatever fails in the turn of one video (probe, generator,
\* classifier), the loop goes on with the inventory as it was, the video
\* visited is the next one in inventory order, and the artifact files and
\* tag entries that were there before the turn are still there after it.
C16_FailureIsolated ==
    [][(VideoTurn /\ faults' > faults)
          => /\ pc' = "loop"
             /\ video_files' = video_files
             /\ idx' <= Len(video_files)
             /\ files \subseteq files'
             /\ IsPrefix(tags_data, tags_data')
             /\ IsPrefix(table.rows, table'.rows)]_vars

\* The number of segments generate_webm cuts for the duration drawn.
GenClipCount == IF gen.duration > Sec(LongDurationSec) THEN 3 ELSE 1

\* The segment file names of GenId in call order (the canonical clip for a
\* duration of at most 60 s).
GenSegmentList ==
    IF gen.duration > Sec(LongDurationSec)
    THEN <<File("preview", GenId \o <<"_start">>, "webm"),
           File("preview", GenId \o <<"_middle">>, "webm"),
           File("preview", GenId \o <<"_end">>, "webm")>>
    ELSE <<WebmPath(GenId)>>

\* C17: when a segment call of generate_webm fails, the call returns
\* failure at once: no later segment is tried (and none of their files is
\* created), no merge is called, and the merged canonical clip of a video
\* above 60 s is not created.
C17_SegmentFailureStops ==
    (gen.tool = "webm" /\ gen.failAt \in 1 .. GenClipCount) =>
        /\ ~gen.ok
        /\ gen.calls = gen.failAt
        /\ Len(gen.starts) = gen.failAt
        /\ gen.concat = <<>>
        /\ \A k \in gen.failAt + 1 .. GenClipCount :
              GenSegmentList[k] \in files => GenSegmentList[k] \in gen.before
        /\ gen.duration > Sec(LongDurationSec) => WebmPath(GenId) \notin files

C17_Witness ==
    gen.tool = "webm" /\ gen.failAt = 2 /\ GenClipCount = 3 /\ ~gen.ok
        /\ GenSegmentList[1] \in files /\ gen.before = {}

\* C18: when the merge call of generate_webm fails for a duration above
\* 60 s, the call returns failure and the three segment files stay.
C18_MergeFailureKeepsSegments ==
    (gen.tool = "webm" /\ gen.duration > Sec(LongDurationSec) /\ gen.failAt = 4) =>
        (~gen.ok /\ gen.calls = 3 /\ GenSegments \subseteq files)

C18_Witness ==
    gen.tool = "webm" /\ gen.duration > Sec(LongDurationSec) /\ gen.failAt = 4
        /\ gen.before = {} /\ GenSegments \subseteq files

\* C19: when generate_webm returns success the canonical clip exists; for
\* a duration above 60 s, when no unlink has failed, none of the three
\* segment files is left; for a duration of at most 60 s the one segment
\* cut is the canonical clip, and nothing is unlinked.
C19_SuccessLeavesCanonicalClip ==
    (gen.tool = "webm" /\ gen.ok) =>
        /\ WebmPath(GenId) \in files
        /\ (gen.duration > Sec(LongDurationSec) /\ gen.kept = {})
              => GenSegments \cap files = {}
        /\ gen.duration <= Sec(LongDurationSec)
              => (gen.calls = 1 /\ gen.concat = <<>>
                  /\ files = gen.before \cup {WebmPath(GenId)})

C19_Witness ==
    gen.tool = "webm" /\ gen.ok /\ gen.duration > Sec(LongDurationSec)
        /\ gen.kept = {} /\ gen.before = GenLeftovers /\ WebmPath(GenId) \in files

GifEntryLive(media_id) == StartsWithGif(media_id) /\ GifPath(Tail(media_id)) \in files

\* C21: after the prune of the tag index, every entry left has the
\* identifier of a live video or the "gif_" identifier of a GIF file that
\* exists, and the entries left are in the order they had.
C21_PruneKeepsLiveEntriesOnly ==
    pc = "done" =>
        LET before == load_existing_tags(start.table)
            left   == {tags_data[k] : k \in 1 .. Len(tags_data)}
        IN  /\ \A k \in 1 .. Len(tags_data) :
                  tags_data[k].media_id \in LiveIds \/ GifEntryLive(tags_data[k].media_id)
            /\ tags_data = SelectSeq(before, LAMBDA e : e \in left)

\* C22: with the classifier loaded, every entry a turn of the loop adds to the tag index has at least
\* one tag and at most the configured number of tags (a classification that
\* fails or returns nothing adds no entry).
C22_EntryOnlyWhenTagged ==
    [][VideoTurn /\ tagger =>
          \A k \in Len(tags_data) + 1 .. Len(tags_data') :
              /\ Len(tags_data'[k].tags) >= 1
              /\ Len(tags_data'[k].tags) <= cfg.num_tags]_vars

\* C23: when the classifier has failed to load, the run is not aborted
\* and tagging is off: the tag index and the tag table hold no entry that
\* the table did not hold when the run began.
C23_LoadFailureDisablesTagging ==
    ev.load_failed =>
        /\ pc # "aborted"
        /\ \A k \in 1 .. Len(tags_data) : tags_data[k].media_id \in StartIds
        /\ \A k \in 1 .. Len(table.rows) : table.rows[k].media_id \in StartIds

\* C24: when the loop begins, the orphan-artifact cleanup has run exactly
\* when the cache-clear did not run, whatever the generate flags are.
C24_CleanupUnlessCacheCleared ==
    pc = "loop" /\ NoFailure => (ev.cleaned <=> ~cfg.clear_cache)

\* C27: the header of the persisted tag table has at least 20 tag columns
\* and no row of the table holds more tag cells than the header has tag
\* columns, across runs with different tag counts.
C27_RowsFitHeader ==
    table.exists /\ NoFailure =>
        /\ table.header >= MinTagCols
        /\ \A k \in 1 .. Len(table.rows) : table.rows[k].cells <= table.header

\* C25: the candidate-label loader raises nothing and returns a list of
\* at least one and at most 50 names, whatever the state of the label table
\* and of the exclusions table.
C25_LoaderAlwaysReturnsLabels ==
    call.name = "load_candidate_tags" =>
        /\ ~call.result.raised
        /\ Len(call.result.tags) >= 1
        /\ Len(call.result.tags) <= MaxCandidates

\* The exclusions table cannot be read (neither missing nor unparsable)
\* under a readable label table with names, in process_media.py: the
\* default list comes back.
C25_Witness ==
    /\ call.name = "load_candidate_tags"
    /\ variant = "pm"
    /\ call.labels.state = "ok"
    /\ Len(call.labels.rows) = MaxNames
    /\ call.exclusions.state = "error"
    /\ call.result = [raised |-> FALSE, tags |-> DEFAULT_CANDIDATE_TAGS]

\* Every kill() follows a terminate() to the same process and the expiry
\* of the wait on it.
KillOnlyAfterGrace ==
    \A i \in 1 .. Len(call.signals) :
        call.signals[i].op = "kill" =>
            /\ i >= 3
            /\ call.signals[i - 2] = [pid |-> call.signals[i].pid, op |-> "terminate"]
            /\ call.signals[i - 1] = [pid |-> call.signals[i].pid, op |-> "wait_expired"]

\* C26: whatever processes are present at startup, the process of the run
\* among them, the run goes on to the collection of its configuration
\* after the process cleanup, and a process is killed only after it was
\* sent terminate and the wait on it expired.
C26_ProcessCleanupNeverFatal ==
    call.name = "clean_abandoned_processes" =>
        /\ call.alive
        /\ call.next = "prompt_user"
        /\ KillOnlyAfterGrace

\* The directories the cache-clear makes anew.
LiveDirs == IF variant = "pm" THEN {"preview", "gif"} ELSE {"preview"}

\* The run has cleared the cache, every deletion went through, and no
\* video of the loop has been handled yet.
JustCleared ==
    /\ ev.cleared
    /\ ~ev.delete_failed
    /\ pc \in {"model_load", "cleanup"} \/ (pc = "loop" /\ idx = 0)

\* C28: after a successful cache-clear, up to the first video of the loop,
\* the artifact directories exist and hold no file, the tag table does not
\* exist and the tag index in memory is empty.
C28_CacheClearEmptiesAll ==
    JustCleared =>
        /\ files = {}
        /\ LiveDirs \subseteq dirs
        /\ ~table.exists
        /\ tags_data = <<>>
        /\ existing_tag_ids = {}

\* The loop of a cache-clear run begins over a cache that held artifacts
\* and a tag table with the row of a video that is still live.
C28_Witness ==
    /\ JustCleared
    /\ pc = "loop"
    /\ video_files # <<>>
    /\ \E k \in 1 .. Len(video_files) :
          /\ JpegPath(Stem(video_files[k])) \in start.files
          /\ Stem(video_files[k]) \in StartIds

\* C29: in a turn of the loop in which the still-frame generator or the
\* clip generator fails, no GIF is generated, the classifier is not called,
\* no tag entry is added and the success counter stays.
C29_GeneratorFailureSkipsVideo ==
    [][VideoTurn /\ ev'.used \cap {"jpeg", "webm"} # {} =>
          /\ calls'.gif = calls.gif
          /\ calls'.clf = calls.clf
          /\ tags_data' = tags_data
          /\ existing_tag_ids' = existing_tag_ids
          /\ table' = table
          /\ success_count' = success_count]_vars

\* The first video of a run with tagging on, a loaded classifier and no
\* entry for it has met a generator failure.
C29_Witness ==
    /\ pc = "loop"
    /\ idx = 1
    /\ ev.used \cap {"jpeg", "webm"} # {}
    /\ cfg.generate_tags
    /\ tagger
    /\ Stem(video_files[1]) \notin existing_tag_ids
    /\ calls.clf = 0
    /\ success_count = 0

\* C30: in a turn of the loop the still-frame generator is called only
\* when the canonical still frame of the video is missing and the clip
\* generator only when its canonical clip is missing; a video of at least
\* 5 s with its still frame and without its canonical clip gets the clip
\* generator called, whatever segment files are there.
C30_ExistenceCheckFirst ==
    [][VideoTurn =>
          LET video_id == Stem(video_files[idx + 1])
          IN  /\ calls'.jpeg > calls.jpeg => JpegPath(video_id) \notin files
              /\ calls'.webm > calls.webm => WebmPath(video_id) \notin files
              /\ (/\ cfg.generate_thumbs
                  /\ ev'.duration >= Sec(MinDurationSec)
                  /\ "jpeg" \notin ev'.used
                  /\ WebmPath(video_id) \notin files)
                     => calls'.webm = calls.webm + 1]_vars

\* The clip generator has been called for a video whose first segment an
\* earlier failed merge had left, and the canonical clip is there now.
C30_Witness ==
    /\ pc = "loop"
    /\ calls.webm >= 1
    /\ \E k \in 1 .. idx :
          LET video_id == Stem(video_files[k])
          IN  /\ File("preview", video_id \o <<"_start">>, "webm") \in start.files
              /\ WebmPath(video_id) \notin start.files
              /\ WebmPath(video_id) \in files

\* C31: in a turn of the loop with GIFs enabled that reaches the GIF
\* stage, the GIF generator is called exactly when the GIF file of the video
\* is missing and the tag index has no entry with the media_id "gif_" +
\* the identifier of the video.
C31_GifGeneratedIffMissingAndUntagged ==
    [][(/\ VideoTurn
        /\ cfg.generate_gifs
        /\ ev'.duration >= Sec(MinDurationSec)
        /\ ev'.used \cap {"jpeg", "webm"} = {})
       => LET video_id == Stem(video_files[idx + 1])
          IN  calls'.gif > calls.gif
                <=> (/\ GifPath(video_id) \notin files
                     /\ GifMediaId(video_id) \notin existing_tag_ids)]_vars

\* C32: a turn of the loop in which only the GIF generator fails still
\* counts the video as a success, and still adds the tag entry of the video
\* when tagging is on, the classifier is loaded, the still frame was made or
\* reused and the video has no entry.
C32_GifFailureDoesNotSkipVideo ==
    [][VideoTurn /\ ev'.used = {"gif"} =>
          LET video_id == Stem(video_files[idx + 1])
          IN  /\ success_count' = success_count + 1
              /\ (/\ cfg.generate_tags
                  /\ tagger
                  /\ cfg.generate_thumbs
                  /\ video_id \notin existing_tag_ids)
                     => \E k \in 1 .. Len(tags_data') : tags_data'[k].media_id = video_id]_vars

\* C33: with tagging on and the classifier loaded, a turn of a run without
\* any failure for a video of at least 5 s that has no tag entry and whose still
\* frame is on disk ends with the tag entry of the video, whether thumbnail
\* generation is on or off.
C33_UntaggedVideoIsClassified ==
    [][(/\ VideoTurn
        /\ cfg.generate_tags
        /\ tagger
        /\ ev'.duration >= Sec(MinDurationSec)
        /\ faults' = 0
        /\ Stem(video_files[idx + 1]) \notin existing_tag_ids
        /\ JpegPath(Stem(video_files[idx + 1])) \in files')
       => \E k \in 1 .. Len(tags_data') :
             /\ tags_data'[k].media_id = Stem(video_files[idx + 1])
             /\ tags_data'[k].tags # <<>>]_vars

\* C34: the success counter counts every video whose turn is neither
\* skipped nor ended by a failure, whether a tag entry is added or not: a
\* turn without failure for a video of at least 5 s, with thumbnail
\* generation on, adds one to it; and it never exceeds the number of videos
\* of the inventory.
C34_SuccessCountsCompletedTurns ==
    [][VideoTurn =>
          /\ success_count' <= Len(video_files)
          /\ (/\ cfg.generate_thumbs
              /\ ev'.duration >= Sec(MinDurationSec)
              /\ ev'.used = {})
                 => success_count' = success_count + 1]_vars

\* C35: a turn of the loop in which the classification of the video
\* fails (the scorer raises or gives nothing) adds no entry with tags, keeps
\* the artifacts of the video, those made in the turn included, and counts
\* the video as a success.
C35_ClassifierErrorNotPropagated ==
    [][VideoTurn /\ ev'.used = {"clf"} =>
          LET video_id == Stem(video_files[idx + 1])
          IN  /\ \A k \in Len(tags_data) + 1 .. Len(tags_data') : tags_data'[k].tags = <<>>
              /\ {JpegPath(video_id), WebmPath(video_id), GifPath(video_id)} \cap files
                    \subseteq files'
              /\ cfg.generate_thumbs =>
                    {JpegPath(video_id), WebmPath(video_id)} \subseteq files'
              /\ success_count' = success_count + 1]_vars

\* The rows of the label table of the call whose name the claims expect
\* among the candidates: a name, a count above 100, and no name of "excl"
\* equal to it up to capitals.
KeptRows(excl) ==
    {k \in 1 .. Len(call.labels.rows) :
        /\ call.labels.rows[k].name # NoName
        /\ call.labels.rows[k].count > MinCount
        /\ \A x \in excl : Lower(x) # Lower(call.labels.rows[k].name)}

\* The place of row k among the rows of S by falling count.
RankIn(S, k) ==
    1 + Cardinality({j \in S : call.labels.rows[j].count > call.labels.rows[k].count})

\* "tags" lists the names of the rows of S by falling count, cut to 50.
ListsTop(tags, S) ==
    /\ Len(tags) = Min(Cardinality(S), MaxCandidates)
    /\ \A k \in S : RankIn(S, k) <= MaxCandidates
                        => tags[RankIn(S, k)] = call.labels.rows[k].name

\* The names of the exclusions table when it can be read, none otherwise.
ReadableExclusions ==
    IF call.exclusions.state = "ok" THEN call.exclusions.names ELSE {}

\* C36: for a readable label table with its columns the loader returns the
\* names with a count above 100 by falling count, without the names an
\* exclusion matches up to capitals, cut to 50 after that; it returns the
\* default list when no such name is left or the label table is missing,
\* unparsable, unreadable or without its columns, and only then.
C36_LoaderReturnsFilteredTop50 ==
    call.name = "load_candidate_tags" =>
        /\ ~call.result.raised
        /\ IF call.labels.state = "ok" /\ KeptRows(ReadableExclusions) # {}
           THEN ListsTop(call.result.tags, KeptRows(ReadableExclusions))
           ELSE call.result.tags = DEFAULT_CANDIDATE_TAGS

\* C37: when the exclusions table is missing, unparsable or fails to be
\* read in another way, the loader returns what the label table alone
\* gives: for a label table with usable names, their top 50 and not the
\* default list.
C37_UnreadableExclusionsSkipped ==
    (/\ call.name = "load_candidate_tags"
     /\ call.exclusions.state \in {"missing", "unparsable", "error"}
     /\ call.labels.state = "ok"
     /\ KeptRows({}) # {})
        => /\ ListsTop(call.result.tags, KeptRows({}))
           /\ call.result.tags # DEFAULT_CANDIDATE_TAGS

\* C38: when generate_gif, called over an empty GIF directory, gives a
\* failed result because one of its five segment calls failed, no segment
\* file of the video is on disk afterwards.
C38_FailedGifSegmentLeavesNothing ==
    (gen.tool = "gif" /\ gen.failAt \in 1 .. 5 /\ gen.before = {}) =>
        /\ ~gen.ok
        /\ \A i \in 1 .. 5 : GifSegmentPath(GenId, i) \notin files

\* From the collection of the configuration on, the run returns early
\* only out of a failed backup or deletion of the cache-clear, and then
\* no generator or classifier was called and no orphan cleanup was made.
EarlyReturnOnlyFromCacheClear ==
    pc = "aborted" =>
        /\ cfg.clear_cache
        /\ ev.backup_failed \/ ev.delete_failed
        /\ calls = NoCalls
        /\ ~ev.cleaned
        /\ ~tagger

\* C39: every run ends, and it ends in the teardown after the loop and the
\* prune unless a failed backup or deletion of the cache-clear made it
\* return early: once the process cleanup at the start of the run is over,
\* the run is alive and goes on to the steps that follow.
C39_RunEndsInTeardownOrCacheClearAbort ==
    (call.name = "clean_abandoned_processes"
        /\ \E k \in 1 .. Len(call.procs) : call.procs[k].self)
        => call.next # "terminated"


\* C40: for a video of more than 60 s and a segment length of 1 to 20 s,
\* the segment calls get the starts 10 s, half the duration and the duration
\* less 20 s, the clamp changing none of them, and each start is later than
\* the one before it.
C40_LongClipStartsUnclamped ==
    (gen.tool = "webm" /\ gen.duration > Sec(LongDurationSec)
        /\ gen.segment_length \in 1 .. MaxSegmentLength)
        => /\ Len(gen.starts) = gen.calls
           /\ gen.calls >= 1 => gen.starts[1] = Sec(10)
           /\ gen.calls >= 2 => 2 * gen.starts[2] = gen.duration
           /\ gen.calls >= 3 => gen.starts[3] + Sec(20) = gen.duration
           /\ \A i, j \in 1 .. Len(gen.starts) : i < j => gen.starts[i] < gen.starts[j]

\* The three segments of a video of 60.5 s were cut with the longest
\* segment length and merged.
C40_Witness ==
    /\ gen.tool = "webm"
    /\ gen.ok
    /\ gen.duration = Sec(LongDurationSec) + 10
    /\ gen.segment_length = MaxSegmentLength
    /\ Len(gen.starts) = 3

==========================================================================
